---- MODULE Spec2Model ----
(***************************************************************************)
(* Graph walker of rust-graphs (src/node_rc.rs, src/node_ref.rs).          *)
(*                                                                         *)
(* A Node is an object with an id and an ordered list of Edges; an Edge    *)
(* carries a weight and a reference to its destination Node.  Graph::dfs   *)
(* and Graph::bfs both run Graph::iterate_all, with a LifoNodeQueue or a    *)
(* FifoNodeQueue as the frontier, and a HashSet<&Node> as the visited set. *)
(* Node derives PartialEq and Hash from all of its fields, so the visited  *)
(* set compares and hashes the whole structure below a node.               *)
(***************************************************************************)
EXTENDS Integers, Sequences, FiniteSets, TLC

(* ---------------------------------------------------------------- bounds *)

\* Number of node objects of a generated graph.
MaxNodes == 3

\* Total number of edges of a generated graph.
MaxEdges == 3

\* Number of enqueue calls on a frontier used on its own.
MaxEnqueues == 4

\* The weight every test edge is built with.
TestWeight == 1

(* ------------------------------------------------------------ data model *)

\* Edge::new(weight, destination_node)
Edge(weight, destination_node) ==
    [weight |-> weight, destination_node |-> destination_node]

\* Node::new(id, children)
Node(id, children) ==
    [id |-> id, children |-> children]

\* The graph built by tests::it_works: 1:[2,3], 2:[4,3], 3:[4,5], 4:[5], 5:[]
TestGraph ==
    [n \in 1..5 |->
        CASE n = 5 -> Node(5, <<>>)
          [] n = 4 -> Node(4, <<Edge(TestWeight, 5)>>)
          [] n = 3 -> Node(3, <<Edge(TestWeight, 4), Edge(TestWeight, 5)>>)
          [] n = 2 -> Node(2, <<Edge(TestWeight, 4), Edge(TestWeight, 3)>>)
          [] n = 1 -> Node(1, <<Edge(TestWeight, 2), Edge(TestWeight, 3)>>)]

\* Sum of d[1..n]
RECURSIVE SumTo(_, _)
SumTo(d, n) == IF n = 0 THEN 0 ELSE d[n] + SumTo(d, n - 1)

\* Out-degrees of the node objects, at most MaxEdges edges in total.
DegreeVectors ==
    {d \in [1..MaxNodes -> 0..MaxEdges] : SumTo(d, MaxNodes) <= MaxEdges}

\* Ids of the node objects: pairwise distinct, or one object k carrying the
\* id of another object j.
IdAssignments ==
    {[n \in 1..MaxNodes |-> IF n = p[2] THEN p[1] ELSE n] :
        p \in {q \in (1..MaxNodes) \X (1..MaxNodes) : q[1] <= q[2]}}

\* The graph with ids `ids`, out-degrees d and the destinations of all edges
\* listed in t, node after node, each edge list in its order.
BuildGraph(ids, d, t) ==
    [n \in 1..MaxNodes |->
        Node(ids[n],
             [k \in 1..d[n] |-> Edge(TestWeight, t[SumTo(d, n - 1) + k])])]

\* A graph in which a child is discovered below another pending node:
\* 1:[2,3,4], 2:[], 3:[], 4:[2]
FanGraph ==
    [n \in 1..4 |->
        CASE n = 1 -> Node(1, <<Edge(TestWeight, 2), Edge(TestWeight, 3),
                                Edge(TestWeight, 4)>>)
          [] n = 4 -> Node(4, <<Edge(TestWeight, 2)>>)
          [] OTHER -> Node(n, <<>>)]

ScenarioGraphs == {TestGraph, FanGraph}

\* graph is a graph of MaxNodes node objects and at most MaxEdges edges
\* (cycles, self-loops, parallel edges, unreachable nodes and shared ids
\* included), or one of the scenario graphs.
IsInputGraph(g) ==
    \/ \E ids \in IdAssignments : \E d \in DegreeVectors :
          \E t \in [1..SumTo(d, MaxNodes) -> 1..MaxNodes] :
             g = BuildGraph(ids, d, t)
    \/ g \in ScenarioGraphs

(* ------------------------------------------------------------ variables *)

VARIABLES
    graph,            \* node object -> Node (fixed during a walk)
    start,            \* the start node of the call (0 before the call)
    to_visit,         \* the frontier: [kind, data]
    already_visited,  \* HashSet<&Node>: the node objects the set holds
    current_node,     \* the node the loop body works on (0 if none)
    edge_idx,         \* position of the for loop in current_node's edges
    pc,               \* where iterate_all is
    visitor_failed,   \* the visitor f has panicked
    visit_log,        \* history: the nodes passed to f, in call order
    enq_log,          \* history: [node, by] for every enqueue, in order
    deq_log,          \* history: the nodes dequeue returned, in order
    other             \* a second call, of the walker of node_ref.rs

vars == <<graph, start, to_visit, already_visited, current_node, edge_idx,
          pc, visitor_failed, visit_log, enq_log, deq_log, other>>

NodeRefs == DOMAIN graph

(* ------------------------------------------------------- graph structure *)

\* Children with the edge list walked from its end.
ChildrenReversed(g, n) ==
    [k \in 1..Len(g[n].children) |->
        g[n].children[Len(g[n].children) + 1 - k].destination_node]

\* Children, taking each edge's weight for its destination.
ChildrenByWeight(g, n) ==
    [k \in 1..Len(g[n].children) |-> g[n].children[k].weight]

\* Node::children_edges_iter, as the destinations in edge-list order
Children(g, n) ==
    [k \in 1..Len(g[n].children) |-> g[n].children[k].destination_node]

ChildSet(g, n) == {g[n].children[k].destination_node : k \in 1..Len(g[n].children)}

\* Nodes reachable from the set S along at least zero outgoing edges.
RECURSIVE ReachableFrom(_, _)
ReachableFrom(g, S) ==
    LET T == S \cup UNION {ChildSet(g, n) : n \in S}
    IN IF T = S THEN S ELSE ReachableFrom(g, T)

Reachable(g, s) == ReachableFrom(g, {s})

\* n lies on a cycle (a self-loop included).
OnCycle(g, n) == n \in ReachableFrom(g, ChildSet(g, n))

\* Some cycle can be reached from n.
ReachesCycle(g, n) == \E m \in Reachable(g, n) : OnCycle(g, m)

(* ------------------------------------------- derived PartialEq and Hash *)

\* The value #[derive(PartialEq, Hash)] compares and hashes: the id and,
\* edge by edge, the weight and the whole destination node.  It is defined
\* only where no cycle can be reached from n; elsewhere the derived code
\* recurses without end.
RECURSIVE StructuralKey(_, _)
StructuralKey(g, n) ==
    [id |-> g[n].id,
     children |-> [k \in 1..Len(g[n].children) |->
                     [weight |-> g[n].children[k].weight,
                      destination_node |->
                          StructuralKey(g, g[n].children[k].destination_node)]]]

\* a == b for two nodes
NodeEq(g, a, b) == StructuralKey(g, a) = StructuralKey(g, b)

\* HashSet::insert recurses through the derived Hash: it overflows the stack
\* when a cycle can be reached from n.
HashOverflows(g, n) == ReachesCycle(g, n)

\* SetContains that finds nothing.
SetContainsNever(g, set, n) == FALSE

\* HashSet::contains
SetContains(g, set, n) == \E m \in set : NodeEq(g, m, n)

\* SetInsert that stores nothing.
SetInsertDropped(g, set, n) == set

\* HashSet::insert: the set afterwards (the element kept is the first one).
SetInsert(g, set, n) == IF SetContains(g, set, n) THEN set ELSE set \cup {n}

(* -------------------------------------------------------------- frontier *)

\* LifoNodeQueue::default / FifoNodeQueue::default
NewQueue(kind) == [kind |-> kind, data |-> <<>>]

\* Enqueue that pushes the node twice.
EnqueueTwice(q, n) == [q EXCEPT !.data = Append(Append(@, n), n)]

\* Enqueue with push_front in place of push_back.
EnqueueFront(q, n) == [q EXCEPT !.data = <<n>> \o @]

\* NodeQueue::enqueue: push_back, in both queues
Enqueue(q, n) == [q EXCEPT !.data = Append(@, n)]

\* FifoDequeue with pop_back in place of pop_front.
FifoDequeueBack(data) ==
    IF data = <<>> THEN [node |-> 0, data |-> data]
    ELSE [node |-> data[Len(data)], data |-> SubSeq(data, 1, Len(data) - 1)]

\* FifoNodeQueue::dequeue: pop_front (node 0 for None)
FifoDequeue(data) ==
    IF data = <<>> THEN [node |-> 0, data |-> data]
    ELSE [node |-> Head(data), data |-> Tail(data)]

\* LifoDequeue that reports None while one node is still pending.
LifoDequeueKeepLast(data) ==
    IF Len(data) <= 1 THEN [node |-> 0, data |-> data]
    ELSE [node |-> data[Len(data)], data |-> SubSeq(data, 1, Len(data) - 1)]

\* LifoDequeue with pop_front in place of pop_back.
LifoDequeueFront(data) ==
    IF data = <<>> THEN [node |-> 0, data |-> data]
    ELSE [node |-> Head(data), data |-> Tail(data)]

\* LifoNodeQueue::dequeue: pop_back (node 0 for None)
LifoDequeue(data) ==
    IF data = <<>> THEN [node |-> 0, data |-> data]
    ELSE [node |-> data[Len(data)], data |-> SubSeq(data, 1, Len(data) - 1)]

\* QueueDequeue with the two queue types taken for each other.
QueueDequeueSwapped(q) ==
    IF q.kind = "Fifo" THEN LifoDequeue(q.data) ELSE FifoDequeue(q.data)

\* NodeQueue::dequeue, dispatched on the queue type
QueueDequeue(q) ==
    IF q.kind = "Fifo" THEN FifoDequeue(q.data) ELSE LifoDequeue(q.data)

(* ---------------------------------------------------------------- walker *)

\* A call not made yet: nothing of iterate_all exists.
IdleWalk ==
    [start |-> 0, to_visit |-> NewQueue("none"), already_visited |-> {},
     current_node |-> 0, edge_idx |-> 0, pc |-> "idle",
     visitor_failed |-> FALSE, visit_log |-> <<>>]

Init ==
    /\ IsInputGraph(graph)
    /\ other = IdleWalk
    /\ start = 0
    /\ to_visit = NewQueue("none")
    /\ already_visited = {}
    /\ current_node = 0
    /\ edge_idx = 0
    /\ pc = "idle"
    /\ visitor_failed = FALSE
    /\ visit_log = <<>>
    /\ enq_log = <<>>
    /\ deq_log = <<>>

\* iterate_all up to the loop: the empty visited set, enqueue(start),
\* insert(start)
IterateAllEnter(s, kind) ==
    /\ pc = "idle"
    /\ start' = s
    /\ to_visit' = Enqueue(NewQueue(kind), s)
    /\ enq_log' = Append(enq_log, [node |-> s, by |-> 0])
    /\ IF HashOverflows(graph, s)
       THEN /\ pc' = "stack_overflow"
            /\ already_visited' = {}
       ELSE /\ pc' = "loop"
            /\ already_visited' = SetInsert(graph, {}, s)
    /\ UNCHANGED <<graph, current_node, edge_idx, visitor_failed, visit_log,
                   deq_log>>

\* Graph::dfs
Dfs == \E s \in NodeRefs : IterateAllEnter(s, "Lifo") /\ UNCHANGED other

\* Graph::bfs
Bfs == \E s \in NodeRefs : IterateAllEnter(s, "Fifo") /\ UNCHANGED other

\* while let Some(current_node) = to_visit.dequeue(): what it does to the
\* state of this call
DequeueStep ==
    /\ pc = "loop"
    /\ LET r == QueueDequeue(to_visit)
       IN /\ current_node' = r.node
          /\ to_visit' = [to_visit EXCEPT !.data = r.data]
          /\ pc' = IF r.node = 0 THEN "terminated" ELSE "visit"
          /\ deq_log' = IF r.node = 0 THEN deq_log ELSE Append(deq_log, r.node)
    /\ UNCHANGED <<graph, start, already_visited, edge_idx, visitor_failed,
                   visit_log, enq_log>>

\* Where the loop body is after position i of the edge list of n: in the for
\* loop while edges are left, else back at the head of the while loop.
AfterEdge(g, n, i) == IF i >= Len(g[n].children) THEN "loop" ELSE "expand"

\* AfterVisitor with the panic caught and the loop going on.
AfterVisitorCaught(returns, g, n) == AfterEdge(g, n, 0)

\* Where iterate_all is after f(&current_node): a panic of f unwinds through
\* iterate_all, which catches nothing.
AfterVisitor(returns, g, n) ==
    IF returns THEN AfterEdge(g, n, 0) ELSE "panicked"

\* while let Some(current_node) = to_visit.dequeue()
Dequeue == DequeueStep /\ UNCHANGED other

\* f(&current_node): what it does to the state of this call
VisitStep ==
    /\ pc = "visit"
    /\ visit_log' = Append(visit_log, current_node)
    /\ \E returns \in BOOLEAN :
          /\ visitor_failed' = ~returns
          /\ pc' = AfterVisitor(returns, graph, current_node)
          /\ edge_idx' = IF AfterVisitor(returns, graph, current_node) = "expand"
                         THEN 1 ELSE 0
    /\ UNCHANGED <<graph, start, to_visit, already_visited, current_node,
                   enq_log, deq_log>>

\* f(&current_node)
Visit == VisitStep /\ UNCHANGED other

\* One pass of `for edge in current_node.children_edges_iter()`:
\* if already_visited.insert(child) { to_visit.enqueue(child) }
\* What it does to the state of this call.
ExpandEdgeStep ==
    /\ pc = "expand"
    /\ LET child == Children(graph, current_node)[edge_idx]
           fresh == ~SetContains(graph, already_visited, child)
       IN IF HashOverflows(graph, child)
          THEN /\ pc' = "stack_overflow"
               /\ UNCHANGED <<to_visit, already_visited, edge_idx, enq_log>>
          ELSE /\ already_visited' = SetInsert(graph, already_visited, child)
               /\ to_visit' = IF fresh THEN Enqueue(to_visit, child) ELSE to_visit
               /\ enq_log' = IF fresh
                             THEN Append(enq_log, [node |-> child, by |-> current_node])
                             ELSE enq_log
               /\ pc' = AfterEdge(graph, current_node, edge_idx)
               /\ edge_idx' = IF AfterEdge(graph, current_node, edge_idx) = "expand"
                              THEN edge_idx + 1 ELSE 0
    /\ UNCHANGED <<graph, start, current_node, visitor_failed, visit_log,
                   deq_log>>

\* One pass of `for edge in current_node.children_edges_iter()`
ExpandEdge == ExpandEdgeStep /\ UNCHANGED other

Next == Dfs \/ Bfs \/ Dequeue \/ Visit \/ ExpandEdge

Spec == Init /\ [][Next]_vars

(* ------------------------------------------- the walker of node_ref.rs *)

\* The state of this call, without the history of its queue.
ThisWalk ==
    [start |-> start, to_visit |-> to_visit, already_visited |-> already_visited,
     current_node |-> current_node, edge_idx |-> edge_idx, pc |-> pc,
     visitor_failed |-> visitor_failed, visit_log |-> visit_log]

rc_vars == <<graph, start, to_visit, already_visited, current_node, edge_idx,
             pc, visitor_failed, visit_log, enq_log, deq_log>>

\* iterate_all of node_ref.rs up to the loop, started on s with a queue of
\* the given kind
RefEnter(g, s, kind) ==
    [start |-> s,
     to_visit |-> Enqueue(NewQueue(kind), s),
     already_visited |-> IF HashOverflows(g, s) THEN {} ELSE SetInsert(g, {}, s),
     current_node |-> 0,
     edge_idx |-> 0,
     pc |-> IF HashOverflows(g, s) THEN "stack_overflow" ELSE "loop",
     visitor_failed |-> FALSE,
     visit_log |-> <<>>]

\* while let Some(current_node) = to_visit.dequeue()
RefDequeue(w) ==
    LET r == QueueDequeue(w.to_visit)
    IN [w EXCEPT !.current_node = r.node,
                 !.to_visit = [@ EXCEPT !.data = r.data],
                 !.pc = IF r.node = 0 THEN "terminated" ELSE "visit"]

\* f(&current_node)
RefVisit(g, w, returns) ==
    [w EXCEPT !.visit_log = Append(@, w.current_node),
              !.visitor_failed = ~returns,
              !.pc = AfterVisitor(returns, g, w.current_node),
              !.edge_idx = IF AfterVisitor(returns, g, w.current_node) = "expand"
                           THEN 1 ELSE 0]

\* RefExpandEdge that enqueues the child whatever insert reports.
RefExpandEdgeAlways(g, w) ==
    LET child == Children(g, w.current_node)[w.edge_idx]
        next == AfterEdge(g, w.current_node, w.edge_idx)
    IN IF HashOverflows(g, child)
       THEN [w EXCEPT !.pc = "stack_overflow"]
       ELSE [w EXCEPT !.already_visited = SetInsert(g, @, child),
                      !.to_visit = Enqueue(@, child),
                      !.pc = next,
                      !.edge_idx = IF next = "expand" THEN @ + 1 ELSE 0]

\* One pass of `for edge in current_node.children_edges_iter()`:
\* if already_visited.insert(child) { to_visit.enqueue(child) }
RefExpandEdge(g, w) ==
    LET child == Children(g, w.current_node)[w.edge_idx]
        fresh == ~SetContains(g, w.already_visited, child)
        next == AfterEdge(g, w.current_node, w.edge_idx)
    IN IF HashOverflows(g, child)
       THEN [w EXCEPT !.pc = "stack_overflow"]
       ELSE [w EXCEPT !.already_visited = SetInsert(g, @, child),
                      !.to_visit = IF fresh THEN Enqueue(@, child) ELSE @,
                      !.pc = next,
                      !.edge_idx = IF next = "expand" THEN @ + 1 ELSE 0]

(* ------------------------------- both walkers on one graph, side by side *)

\* Both walkers are called with the same start node, queue kind and
\* visitor, and run step by step next to each other.
PairDfs ==
    \E s \in NodeRefs :
        IterateAllEnter(s, "Lifo") /\ other' = RefEnter(graph, s, "Lifo")

PairBfs ==
    \E s \in NodeRefs :
        IterateAllEnter(s, "Fifo") /\ other' = RefEnter(graph, s, "Fifo")

PairDequeue ==
    /\ other.pc = "loop"
    /\ DequeueStep
    /\ other' = RefDequeue(other)

\* The visitor is the same function in both calls: it fails in both or in
\* neither.
PairVisit ==
    /\ other.pc = "visit"
    /\ VisitStep
    /\ other' = RefVisit(graph, other, ~visitor_failed')

PairExpandEdge ==
    /\ other.pc = "expand"
    /\ ExpandEdgeStep
    /\ other' = RefExpandEdge(graph, other)

PairNext == PairDfs \/ PairBfs \/ PairDequeue \/ PairVisit \/ PairExpandEdge

PairSpec == Init /\ [][PairNext]_vars

(* --------------------------------- two calls on one graph, interleaved *)

\* No call has overflowed the stack: the process is running.
Alive == pc # "stack_overflow" /\ other.pc # "stack_overflow"

\* The places of a call that is under way.
Running == {"loop", "visit", "expand"}

ConcDfs == Alive /\ Dfs

ConcBfs == Alive /\ Bfs

ConcDequeue == Alive /\ Dequeue

ConcVisit == Alive /\ Visit

ConcExpandEdge == Alive /\ ExpandEdge

OtherDfs ==
    /\ Alive
    /\ other.pc = "idle"
    /\ \E s \in NodeRefs : other' = RefEnter(graph, s, "Lifo")
    /\ UNCHANGED rc_vars

OtherBfs ==
    /\ Alive
    /\ other.pc = "idle"
    /\ \E s \in NodeRefs : other' = RefEnter(graph, s, "Fifo")
    /\ UNCHANGED rc_vars

OtherDequeue ==
    /\ Alive
    /\ other.pc = "loop"
    /\ other' = RefDequeue(other)
    /\ UNCHANGED rc_vars

OtherVisit ==
    /\ Alive
    /\ other.pc = "visit"
    /\ \E returns \in BOOLEAN : other' = RefVisit(graph, other, returns)
    /\ UNCHANGED rc_vars

OtherExpandEdge ==
    /\ Alive
    /\ other.pc = "expand"
    /\ other' = RefExpandEdge(graph, other)
    /\ UNCHANGED rc_vars

\* A stack overflow is not a panic: the runtime aborts the process, and a
\* call that is under way in another thread ends where it is.
ProcessAbort ==
    /\ ~Alive
    /\ pc \in Running \/ other.pc \in Running
    /\ pc' = IF pc \in Running THEN "aborted" ELSE pc
    /\ other' = IF other.pc \in Running THEN [other EXCEPT !.pc = "aborted"]
                ELSE other
    /\ UNCHANGED <<graph, start, to_visit, already_visited, current_node,
                   edge_idx, visitor_failed, visit_log, enq_log, deq_log>>

ConcNext ==
    \/ ConcDfs \/ ConcBfs \/ ConcDequeue \/ ConcVisit \/ ConcExpandEdge
    \/ OtherDfs \/ OtherBfs \/ OtherDequeue \/ OtherVisit \/ OtherExpandEdge
    \/ ProcessAbort

ConcSpec == Init /\ [][ConcNext]_vars

(* ------------------------------------------------ a frontier on its own *)

\* A FifoNodeQueue or a LifoNodeQueue, default-constructed, and the nodes of
\* the test graph to put into it.
QueueInit ==
    /\ graph = TestGraph
    /\ other = IdleWalk
    /\ start = 0
    /\ to_visit \in {NewQueue("Fifo"), NewQueue("Lifo")}
    /\ already_visited = {}
    /\ current_node = 0
    /\ edge_idx = 0
    /\ pc = "queue"
    /\ visitor_failed = FALSE
    /\ visit_log = <<>>
    /\ enq_log = <<>>
    /\ deq_log = <<>>

\* to_visit.enqueue(n), for any of the first MaxNodes nodes; the log keeps
\* how many nodes had been dequeued before.
QueueEnqueue ==
    /\ pc = "queue"
    /\ Len(enq_log) < MaxEnqueues
    /\ \E n \in NodeRefs \cap (1..MaxNodes) :
          /\ to_visit' = Enqueue(to_visit, n)
          /\ enq_log' = Append(enq_log,
                               [node |-> n, by |-> 0, after |-> Len(deq_log)])
    /\ UNCHANGED <<graph, start, already_visited, current_node, edge_idx, pc,
                   visitor_failed, visit_log, deq_log, other>>

\* to_visit.dequeue(): Some(node), or None from an empty queue
QueueTake ==
    /\ pc = "queue"
    /\ LET r == QueueDequeue(to_visit)
       IN /\ current_node' = r.node
          /\ to_visit' = [to_visit EXCEPT !.data = r.data]
          /\ deq_log' = IF r.node = 0 THEN deq_log ELSE Append(deq_log, r.node)
    /\ UNCHANGED <<graph, start, already_visited, edge_idx, pc,
                   visitor_failed, visit_log, enq_log, other>>

QueueNext == QueueEnqueue \/ QueueTake

QueueSpec == QueueInit /\ [][QueueNext]_vars

(* ------------------------------------------------------------ vocabulary *)

Range(seq) == {seq[i] : i \in 1..Len(seq)}

\* How often n occurs in seq
Count(seq, n) == Cardinality({i \in 1..Len(seq) : seq[i] = n})

\* The first position of n in seq (0 if none)
Pos(seq, n) ==
    IF n \in Range(seq) THEN CHOOSE i \in 1..Len(seq) :
                                /\ seq[i] = n
                                /\ \A j \in 1..(i - 1) : seq[j] # n
    ELSE 0

LastOf(seq) == seq[Len(seq)]

Called == start # 0

Lifo == to_visit.kind = "Lifo"

Fifo == to_visit.kind = "Fifo"

\* The node objects of g carry pairwise distinct ids.
DistinctIds(g) == \A a, b \in DOMAIN g : g[a].id = g[b].id => a = b

\* The call is over: the loop ended, or the process died in the hash.
WalkOver == pc \in {"terminated", "stack_overflow"}

\* The nodes at distance at most k from the nodes of S.
RECURSIVE Within(_, _, _)
Within(g, S, k) ==
    IF k = 0 THEN S
    ELSE Within(g, S \cup UNION {ChildSet(g, n) : n \in S}, k - 1)

\* The graph distance from s to n, a node reachable from s.
Distance(g, s, n) ==
    CHOOSE k \in 0..Cardinality(DOMAIN g) :
        /\ n \in Within(g, {s}, k)
        /\ \A j \in 0..(k - 1) : n \notin Within(g, {s}, j)

(* ---------------------------------------------------------------- claims *)

VisitOnceAcyclic ==
    (Called /\ DistinctIds(graph) /\ ~ReachesCycle(graph, start)) =>
        /\ \A n \in NodeRefs : Count(visit_log, n) <= 1
        /\ WalkOver => \A n \in Reachable(graph, start) : Count(visit_log, n) = 1

\* C2 (unreachable exclusion): a node that cannot be reached from the start
\* node is never in the frontier, never in the visited set, never dequeued
\* and never passed to the visitor.
C2_UnreachableExcluded ==
    Called =>
        \A n \in NodeRefs \ Reachable(graph, start) :
            /\ n \notin Range(to_visit.data)
            /\ n \notin already_visited
            /\ n \notin Range(visit_log)
            /\ n \notin {e.node : e \in Range(enq_log)}
            /\ n \notin Range(deq_log)
            /\ n # current_node

\* C2 witness: a walk over at least two nodes has ended and left a node of
\* the graph out.
C2_Witness ==
    /\ pc = "terminated"
    /\ Len(visit_log) >= 2
    /\ NodeRefs \ Reachable(graph, start) # {}

C4_BfsLevelOrder ==
    Fifo =>
        \A i, j \in 1..Len(visit_log) :
            i < j => Distance(graph, start, visit_log[i])
                       <= Distance(graph, start, visit_log[j])

\* C4 witness: a bfs walk has ended after visiting nodes at distances 0, 1
\* and 2, two of them at the same distance.
C4_Witness ==
    /\ Fifo
    /\ pc = "terminated"
    /\ {Distance(graph, start, n) : n \in Range(visit_log)} = {0, 1, 2}
    /\ Len(visit_log) >= 4

\* C5 (bfs on the test graph): bfs from node 1 calls the visitor in the
\* order 1, 2, 3, 4, 5: every log is a prefix of it and the final log is it.
C5_TestGraphBfs ==
    (graph = TestGraph /\ Fifo /\ start = 1) =>
        /\ visit_log = SubSeq(<<1, 2, 3, 4, 5>>, 1, Len(visit_log))
        /\ pc = "terminated" => visit_log = <<1, 2, 3, 4, 5>>

\* C5 witness: bfs from node 1 of the test graph has ended.
C5_Witness ==
    /\ graph = TestGraph
    /\ Fifo
    /\ start = 1
    /\ pc = "terminated"
    /\ Len(visit_log) = 5

\* C6 as stated (dfs on the test graph): dfs from node 1 visits node 1
\* first and node 5 last.
C6_TestGraphDfsFiveLast ==
    (graph = TestGraph /\ Lifo /\ start = 1 /\ pc = "terminated") =>
        /\ visit_log[1] = 1
        /\ LastOf(visit_log) = 5

\* C6 amended (dfs on the test graph): dfs from node 1 calls the visitor in
\* the order 1, 3, 5, 4, 2: node 1 first, node 5 third, node 2 last.
C6_TestGraphDfsOrder ==
    (graph = TestGraph /\ Lifo /\ start = 1) =>
        /\ visit_log = SubSeq(<<1, 3, 5, 4, 2>>, 1, Len(visit_log))
        /\ pc = "terminated" => visit_log = <<1, 3, 5, 4, 2>>

\* C6 witness: dfs from node 1 of the test graph has ended.
C6_Witness ==
    /\ graph = TestGraph
    /\ Lifo
    /\ start = 1
    /\ pc = "terminated"
    /\ Len(visit_log) = 5

\* C7 (identity-based dedup): of the node objects that share an id, at most
\* one is enqueued and at most one is passed to the visitor, whatever their
\* edge lists are.
C7_IdentityDedup ==
    /\ \A i, j \in 1..Len(enq_log) :
          graph[enq_log[i].node].id = graph[enq_log[j].node].id => i = j
    /\ \A i, j \in 1..Len(visit_log) :
          graph[visit_log[i]].id = graph[visit_log[j]].id => i = j

\* The enqueues made while node p was expanded, as positions of enq_log.
EnqueuedBy(p) == {i \in 1..Len(enq_log) : enq_log[i].by = p}

Max(S) == CHOOSE x \in S : \A y \in S : y <= x

\* C8 (DFS stack order): in a dfs walk, after a node that newly enqueued
\* children the next node visited is the last child it enqueued; and a node
\* that was pending when another node was enqueued is visited only after
\* that later node.
C8_DfsStackOrder ==
    Lifo =>
        /\ \A k \in 2..Len(visit_log) :
              EnqueuedBy(visit_log[k - 1]) # {} =>
                  visit_log[k] = enq_log[Max(EnqueuedBy(visit_log[k - 1]))].node
        /\ \A i, j \in 1..Len(enq_log) :
              LET a == enq_log[i].node
                  b == enq_log[j].node
                  p == enq_log[j].by
              IN (/\ i < j
                  /\ a # p
                  /\ a \in Range(visit_log)
                  /\ Pos(visit_log, a) > Pos(visit_log, p))
                 => /\ b \in Range(visit_log)
                    /\ Pos(visit_log, b) < Pos(visit_log, a)

\* C8 witness: a dfs walk has ended in which a node below the start node
\* enqueued a child while a sibling enqueued earlier was pending, and the
\* child was visited before that sibling.
C8_Witness ==
    /\ Lifo
    /\ pc = "terminated"
    /\ \E i, j \in 1..Len(enq_log) :
          LET a == enq_log[i].node
              b == enq_log[j].node
              p == enq_log[j].by
          IN /\ i < j
             /\ p \notin {0, start, a}
             /\ enq_log[i].by = start
             /\ Pos(visit_log, p) < Pos(visit_log, b)
             /\ Pos(visit_log, b) < Pos(visit_log, a)

\* C9 (dfs exhausts a branch): in a dfs walk, when the node just visited
\* has an edge to a node not visited so far, the next node visited is one
\* of its children.
C9_DfsBranchFirst ==
    Lifo =>
        \A k \in 2..Len(visit_log) :
            (\E c \in ChildSet(graph, visit_log[k - 1]) :
                 c \notin Range(SubSeq(visit_log, 1, k - 1)))
            => visit_log[k] \in ChildSet(graph, visit_log[k - 1])

\* C10 (visitor failure stops the walk): once the visitor has failed,
\* iterate_all has unwound to its caller, the nodes visited are the nodes
\* dequeued, ending with the failing one, and from then on nothing is
\* visited, marked, enqueued or dequeued.
C10_VisitorFailureStops ==
    /\ [](visitor_failed =>
            /\ pc = "panicked"
            /\ visit_log = deq_log
            /\ LastOf(visit_log) = current_node)
    /\ [][visitor_failed =>
            UNCHANGED <<visit_log, already_visited, to_visit, enq_log, deq_log>>]_vars

\* C10 witness: the visitor has failed on the second node or later, with
\* nodes still pending in the frontier.
C10_Witness ==
    /\ visitor_failed
    /\ Len(visit_log) >= 2
    /\ to_visit.data # <<>>

\* C11 (start node without edges): the start node is the only node ever
\* enqueued, the visitor is called once, with the start node, and after
\* that call the frontier is empty, so that the next dequeue ends the walk.
C11_LeafStart ==
    (Called /\ graph[start].children = <<>>) =>
        /\ enq_log = <<[node |-> start, by |-> 0]>>
        /\ visit_log \in {<<>>, <<start>>}
        /\ pc \notin {"expand", "stack_overflow"}
        /\ visit_log = <<start>> =>
              /\ to_visit.data = <<>>
              /\ pc \in {"loop", "terminated", "panicked"}
        /\ pc = "terminated" => visit_log = <<start>>

\* C11 witness: a walk from a start node without edges has ended.
C11_Witness ==
    /\ Called
    /\ graph[start].children = <<>>
    /\ pc = "terminated"
    /\ visit_log = <<start>>

\* The nodes enqueued so far.
EnqueuedNodes == {enq_log[i].node : i \in 1..Len(enq_log)}

\* C15 (enqueue at most once): no node is enqueued twice in a walk, the
\* frontier never holds a node twice, and an edge to a node enqueued
\* before leaves the frontier as it is.
C15_EnqueueOnce ==
    /\ [](/\ \A i, j \in 1..Len(enq_log) :
               enq_log[i].node = enq_log[j].node => i = j
          /\ \A i, j \in 1..Len(to_visit.data) :
               to_visit.data[i] = to_visit.data[j] => i = j)
    /\ [][(/\ pc = "expand"
           /\ Children(graph, current_node)[edge_idx] \in EnqueuedNodes)
          => to_visit' = to_visit]_vars

\* How many edges of visited nodes lead to n.
EdgesInto(n) ==
    Cardinality({e \in Range(visit_log) \X (1..Cardinality(NodeRefs) * MaxEdges) :
                    /\ e[2] <= Len(graph[e[1]].children)
                    /\ Children(graph, e[1])[e[2]] = n})

\* C15 witness: a walk has ended in which a visited node has several
\* incoming edges from visited nodes.
C15_Witness ==
    /\ pc = "terminated"
    /\ \E n \in Range(visit_log) : EdgesInto(n) >= 2

FirstEdge(p, c) ==
    Pos([k \in 1..Len(graph[p].children) |-> graph[p].children[k].destination_node], c)

\* C17 (sibling order): of two children one node newly enqueued, bfs
\* visits the one earlier in the edge list first and dfs visits it last.
C17_SiblingOrder ==
    \A i, j \in 1..Len(enq_log) :
        LET p == enq_log[i].by
            a == enq_log[i].node
            b == enq_log[j].node
        IN (/\ p # 0
            /\ enq_log[j].by = p
            /\ FirstEdge(p, a) < FirstEdge(p, b))
           => /\ Fifo => /\ b \in Range(visit_log) => a \in Range(visit_log)
                         /\ b \in Range(visit_log) =>
                               Pos(visit_log, a) < Pos(visit_log, b)
              /\ Lifo => /\ a \in Range(visit_log) => b \in Range(visit_log)
                         /\ a \in Range(visit_log) =>
                               Pos(visit_log, b) < Pos(visit_log, a)

\* C17 witness: a dfs walk has ended in which one node enqueued two
\* children and another node enqueued a child as well.
C17_Witness ==
    /\ Lifo
    /\ pc = "terminated"
    /\ \E i, j, k \in 1..Len(enq_log) :
          /\ i # j
          /\ enq_log[i].by # 0
          /\ enq_log[i].by = enq_log[j].by
          /\ enq_log[k].by \notin {0, enq_log[i].by}

\* C18 (walk-state invariant): at the loop head the visited set is the
\* disjoint union of the nodes passed to the visitor and the nodes pending
\* in the frontier, none of them counted twice.
C18_LoopHeadPartition ==
    pc = "loop" =>
        /\ already_visited = Range(visit_log) \cup Range(to_visit.data)
        /\ Range(visit_log) \cap Range(to_visit.data) = {}
        /\ Cardinality(already_visited) = Len(visit_log) + Len(to_visit.data)

\* C18 witness: the loop head with two nodes visited and nodes pending.
C18_Witness ==
    /\ pc = "loop"
    /\ Len(visit_log) >= 2
    /\ to_visit.data # <<>>

\* The nodes enqueued so far, in enqueue order.
EnqueuedSeq == [i \in 1..Len(enq_log) |-> enq_log[i].node]

\* C13 (Fifo frontier): whatever the order of the enqueue and dequeue
\* calls, the nodes the dequeues returned are the first nodes enqueued, in
\* enqueue order, and the later ones are pending.
C13_FifoOrder ==
    (pc = "queue" /\ Fifo) => EnqueuedSeq = deq_log \o to_visit.data

\* C13 witness: a Fifo queue has returned two nodes, a node was enqueued
\* between two dequeues, and nodes are pending.
C13_Witness ==
    /\ pc = "queue"
    /\ Fifo
    /\ Len(deq_log) >= 2
    /\ to_visit.data # <<>>
    /\ \E i \in 1..Len(enq_log) : enq_log[i].after = 1

\* The enqueue calls (positions of enq_log) made before the k-th
\* successful dequeue.
EnqueuedBefore(k) == {i \in 1..Len(enq_log) : enq_log[i].after < k}

\* The enqueue calls whose node the first k successful dequeues of a Lifo
\* queue are to return: each dequeue takes the latest call not taken so far
\* (0 if none is left).
RECURSIVE LifoTaken(_)
LifoTaken(k) ==
    IF k = 0 THEN {}
    ELSE LET left == EnqueuedBefore(k) \ LifoTaken(k - 1)
         IN LifoTaken(k - 1) \cup {IF left = {} THEN 0 ELSE Max(left)}

\* The k-th of these calls.
LifoTakenAt(k) == CHOOSE i \in LifoTaken(k) : i \notin LifoTaken(k - 1)

\* The nodes of the enqueue calls in S, in enqueue order.
RECURSIVE NodesOf(_)
NodesOf(S) ==
    IF S = {} THEN <<>>
    ELSE NodesOf(S \ {Max(S)}) \o <<enq_log[Max(S)].node>>

\* C14 (Lifo frontier): whatever the order of the enqueue and dequeue
\* calls, every successful dequeue returned the node of the latest enqueue
\* not dequeued before it, and the pending nodes are the others, in
\* enqueue order.
C14_LifoOrder ==
    (pc = "queue" /\ Lifo) =>
        /\ 0 \notin LifoTaken(Len(deq_log))
        /\ Cardinality(LifoTaken(Len(deq_log))) = Len(deq_log)
        /\ \A k \in 1..Len(deq_log) : deq_log[k] = enq_log[LifoTakenAt(k)].node
        /\ to_visit.data = NodesOf((1..Len(enq_log)) \ LifoTaken(Len(deq_log)))

\* C14 witness: a Lifo queue has returned two nodes, the second of them
\* enqueued after the first dequeue, and two older nodes are pending.
C14_Witness ==
    /\ pc = "queue"
    /\ Lifo
    /\ Len(deq_log) >= 2
    /\ enq_log[LifoTakenAt(2)].after = 1
    /\ Len(to_visit.data) >= 2
    /\ to_visit.data[1] # to_visit.data[2]

\* s is the beginning of t.
IsPrefix(s, t) == Len(s) <= Len(t) /\ s = SubSeq(t, 1, Len(s))

\* A call run to its end with nothing else going on and a visitor that
\* returns.
RECURSIVE SoloRun(_, _)
SoloRun(g, w) ==
    IF w.pc = "loop" THEN SoloRun(g, RefDequeue(w))
    ELSE IF w.pc = "visit" THEN SoloRun(g, RefVisit(g, w, TRUE))
    ELSE IF w.pc = "expand" THEN SoloRun(g, RefExpandEdge(g, w))
    ELSE w

\* The visitor calls of dfs (kind "Lifo") or bfs (kind "Fifo") from s, run
\* alone.
SoloVisits(g, s, kind) == SoloRun(g, RefEnter(g, s, kind)).visit_log

\* The visitor calls of the call w are the beginning of those it makes when
\* run alone, and all of them once the call is over without a failure of
\* its visitor.
WalkAsAlone(w) ==
    w.pc # "idle" =>
        LET alone == SoloVisits(graph, w.start, w.to_visit.kind)
        IN /\ IsPrefix(w.visit_log, alone)
           /\ w.pc \in {"terminated", "stack_overflow", "aborted"} =>
                  w.visit_log = alone

PrivateWalksUnlessAborted ==
    /\ pc # "aborted" => WalkAsAlone(ThisWalk)
    /\ other.pc # "aborted" => WalkAsAlone(other)

\* Two interleaved calls with different orders have both terminated.
PrivateWalksWitness ==
    /\ pc = "terminated"
    /\ other.pc = "terminated"
    /\ Len(visit_log) >= 3
    /\ Len(other.visit_log) >= 3
    /\ other.visit_log # visit_log
    /\ other.start = start

\* C19 (representation equivalence): called with the same graph, start
\* node and visitor, the walker of node_rc.rs and the walker of node_ref.rs
\* are at the same place after every step and have made the same visitor
\* calls.
C19_SameVisits ==
    /\ other.visit_log = visit_log
    /\ other.pc = pc
    /\ other.visitor_failed = visitor_failed

\* C19 witness: both walkers have terminated after the same three or more
\* visitor calls.
C19_Witness ==
    /\ pc = "terminated"
    /\ other.pc = "terminated"
    /\ Len(visit_log) >= 3
    /\ other.visit_log = visit_log

====
